---- MODULE Spec2Model ----
(***************************************************************************)
(* A model of the durable-record core of kvdk:                             *)
(*   - the linkage check of doubly linked records                          *)
(*     (KVEngine::isLinkedDLDataEntry, engine/kv_engine.hpp),              *)
(*   - the record persist protocol (StringRecord::PersistStringRecord and  *)
(*     DLRecord::PersistDLRecord, engine/data_record.cpp),                 *)
(*   - the timestamp authority (KVEngine::get_timestamp),                  *)
(*   - the chunk based allocator (ChunkBasedAllocator),                    *)
(*   - the recovery scan of the shards (KVEngine::RestoreData),            *)
(*   - the size checks (KVEngine::CheckKeySize, CheckValueSize,            *)
(*     SearchOrInitSkiplist),                                              *)
(*   - the chained insertion that the linkage check recovers from.         *)
(* Each part has its own specification over its own group of variables;    *)
(* the variables of the other parts stay at their initial values.          *)
(***************************************************************************)
EXTENDS Integers, Sequences, FiniteSets, TLC

(***************************************************************************)
(* Bounds of the model.                                                    *)
(***************************************************************************)
\* number of chained records in the persistent region of the linkage model
NumRecords == 3
\* persist calls one writer thread makes
MaxPersists == 2
\* writer threads of the timestamp model
NumWriters == 2
\* the cycle counter is followed up to this value
MaxTsc == 2
\* restarts of the engine
MaxRestarts == 2
\* writer threads of the allocator model
NumAllocThreads == 2
\* Allocate calls, all threads together
MaxAllocs == 3
\* chunks the heap can hand out before malloc fails
MaxChunks == 3
\* shards (writer threads) whose chunks the recovery scans
NumShards == 2
\* records on the media, all shards together
MaxMediaRecords == 2
\* timestamps of the records on the media are 1..MaxRecordTs
MaxRecordTs == 2
\* distinct collection names of each length
NumNames == 2

VARIABLES
  \* ---- linkage check ----
  dl,         \* offset -> [prev, next]: the link words of the chained records
  aborted,    \* the process ended in std::abort()
  call,       \* the latest call of isLinkedDLDataEntry: argument, what it
              \* observed, what it returned, the writes it made, dl before it
  prevCall,   \* the call before that one
  \* ---- record persist protocol (one writer thread) ----
  pc,                  \* where the thread is inside the persist call
  inp,                 \* the arguments of the call in progress (or the last)
  data_cpy_target,     \* "buffer" or "addr", as chosen by the call
  thread_data_buffer,  \* the thread_local staging buffer
  vis,                 \* destination cells as the CPU reads them
  dur,                 \* destination cells as they are on the media
  ret,                 \* the pointer the call returned
  nPersists,           \* completed calls of this thread
  crashPc,             \* where the thread was when the process crashed
  minWriteSize,        \* the smallest write_size of the calls begun (0: none)
  bufferAtCall         \* the staging buffer as the call in progress found it

VARIABLES
  \* ---- timestamp authority ----
  tsc,                         \* the hardware cycle counter
  ts_on_startup_,              \* KVEngine::ts_on_startup_
  newest_version_on_startup_,  \* KVEngine::newest_version_on_startup_
  lastTs,      \* per thread: the latest get_timestamp() result of this run
  prevTs,      \* per thread: the result before that one
  lastTsc,     \* per thread: the counter value read by the latest call
  prevTsc,     \* per thread: the counter value read by the call before
  mediaTs,     \* the highest timestamp of a record on the media
  issuedTs,    \* the highest timestamp issued so far, in any run (or none)
  issuedBefore,   \* the highest timestamp issued before the last restart
  mediaBefore,    \* the highest timestamp on the media at the last restart
                  \* (0 when the media held no record)
  restarts     \* restarts so far

VARIABLES
  \* ---- chunk based allocator ----
  thread_cache_,  \* per thread: chunk_addr, usable_bytes, allocated_chunks
  heapChunks,     \* chunks handed out by the heap so far
  request,        \* per thread: the Allocate call in progress (size, number)
  live,           \* entries returned by Allocate and not freed
  nAllocs         \* Allocate calls started

VARIABLES
  \* ---- recovery scan ----
  recovering,    \* the writers are gone and the recovery runs
  media,         \* per shard: the records of its chunks, in address order
  cursor,        \* per shard: the scan cursor, a byte offset in the shard
  scanPc,        \* per shard: Scanning, ValidatingRecord, Restoring, Done
  current,       \* per shard: the offset of the record being looked at
  hash_table_,   \* key -> the entry installed for it (or none)
  visited,       \* per shard: offsets at which a record was validated
  restored,      \* the records the restore step installed: <<shard, offset>>
  restoreCount   \* key-version -> times the restore step installed it

VARIABLES
  \* ---- size checks ----
  skiplists_,    \* the collections that exist, by name
  spaceEntries,  \* pmem space entries allocated for collection headers
  headerRecords, \* header records persisted
  sizeCall       \* the latest call: arguments, status, what it went on to call

VARIABLES
  \* ---- chained insertion ----
  ins,           \* the insertion in progress: record, neighbours, step
  persisted,     \* offsets whose record image is complete on the media
  crashed        \* the process crashed; recovery runs on what the media holds

linkVars == <<dl, aborted, call, prevCall>>

recoverVars == <<recovering, media, cursor, scanPc, current, hash_table_,
                 visited, restored, restoreCount>>

sizeVars == <<skiplists_, spaceEntries, headerRecords, sizeCall>>

insertVars == <<ins, persisted, crashed>>

timeVars == <<tsc, ts_on_startup_, newest_version_on_startup_, lastTs, prevTs,
              lastTsc, prevTsc, mediaTs, issuedTs, issuedBefore, mediaBefore,
              restarts>>

allocVars == <<thread_cache_, heapChunks, request, live, nAllocs>>

persistVars == <<pc, inp, data_cpy_target, thread_data_buffer, vis, dur, ret,
                 nPersists, crashPc, minWriteSize, bufferAtCall>>

\* what is kept about the calls made so far
persistHistory == <<minWriteSize, bufferAtCall>>

vars == <<linkVars, persistVars, timeVars, allocVars, recoverVars, sizeVars,
          insertVars>>

\* what an action of one part leaves alone
LinkFrame    == UNCHANGED <<persistVars, timeVars, allocVars, recoverVars,
                            sizeVars, insertVars>>
PersistFrame == UNCHANGED <<linkVars, timeVars, allocVars, recoverVars,
                            sizeVars, insertVars>>
TimeFrame    == UNCHANGED <<linkVars, persistVars, allocVars, recoverVars,
                            sizeVars, insertVars>>
AllocFrame   == UNCHANGED <<linkVars, persistVars, timeVars, recoverVars,
                            sizeVars, insertVars>>
RecoverFrame == UNCHANGED <<linkVars, persistVars, timeVars, allocVars,
                            sizeVars, insertVars>>
SizeFrame    == UNCHANGED <<linkVars, persistVars, timeVars, allocVars,
                            recoverVars, insertVars>>
\* the insertion's recovery runs the linkage check, so the link words are
\* part of its state
InsertFrame  == UNCHANGED <<persistVars, timeVars, allocVars, recoverVars,
                            sizeVars>>

(***************************************************************************)
(* Linkage check.  Offsets of chained records are 1..NumRecords; the       *)
(* record at offset o is dl[o].                                            *)
(***************************************************************************)
Offsets == 1..NumRecords

DLRecord == [prev : Offsets, next : Offsets]

\* pmem_allocator_->addr2offset_checked / offset2addr_checked: a record is
\* named by its offset, so both are the identity on valid offsets.
addr2offset_checked(pmp_record) == pmp_record
offset2addr_checked(offset) == offset

checkDLRecordLinkageLeft(mem, pmp_record) ==
  LET offset == addr2offset_checked(pmp_record)
      pmem_record_prev == offset2addr_checked(mem[pmp_record].prev)
  IN  mem[pmem_record_prev].next = offset

checkDLRecordLinkageRight(mem, pmp_record) ==
  LET offset == addr2offset_checked(pmp_record)
      pmp_next == offset2addr_checked(mem[pmp_record].next)
  IN  mem[pmp_next].prev = offset

NoCall == [rec |-> 0, ret |-> "none", writes |-> <<>>,
           fromLeft |-> FALSE, fromRight |-> FALSE, pre |-> <<>>]

\* The local flags of isLinkedDLDataEntry, named as in the source:
\* is_linked_right is read from the predecessor's next word and
\* is_linked_left from the successor's prev word.
is_linked_right(mem, pmp_record) ==
  mem[offset2addr_checked(mem[pmp_record].prev)].next
     = addr2offset_checked(pmp_record)

is_linked_left(mem, pmp_record) ==
  mem[offset2addr_checked(mem[pmp_record].next)].prev
     = addr2offset_checked(pmp_record)

\* isLinkedDLDataEntry without its "linked from neither side" branch.
LinkOutcomeNoUnlinkedBranch(mem, pmp_record) ==
  LET offset   == addr2offset_checked(pmp_record)
      pmp_next == offset2addr_checked(mem[pmp_record].next)
      left     == is_linked_left(mem, pmp_record)
      right    == is_linked_right(mem, pmp_record)
  IN  IF left /\ right THEN [ret |-> "true", writes |-> <<>>]
      ELSE IF left /\ ~right
           THEN [ret |-> "true", writes |-> << <<pmp_next, "prev", offset>> >>]
      ELSE [ret |-> "abort", writes |-> <<>>]

\* isLinkedDLDataEntry with a repair that stores into the predecessor's next
LinkOutcomeRepairsPrevNext(mem, pmp_record) ==
  LET offset   == addr2offset_checked(pmp_record)
      pmp_prev == offset2addr_checked(mem[pmp_record].prev)
      left     == is_linked_left(mem, pmp_record)
      right    == is_linked_right(mem, pmp_record)
  IN  IF left /\ right THEN [ret |-> "true", writes |-> <<>>]
      ELSE IF ~left /\ ~right THEN [ret |-> "false", writes |-> <<>>]
      ELSE IF left /\ ~right
           THEN [ret |-> "true", writes |-> << <<pmp_prev, "next", offset>> >>]
      ELSE [ret |-> "abort", writes |-> <<>>]

\* isLinkedDLDataEntry storing the successor's prev whenever it returns true
LinkOutcomeAlwaysStores(mem, pmp_record) ==
  LET offset   == addr2offset_checked(pmp_record)
      pmp_next == offset2addr_checked(mem[pmp_record].next)
      left     == is_linked_left(mem, pmp_record)
      right    == is_linked_right(mem, pmp_record)
  IN  IF ~left /\ ~right THEN [ret |-> "false", writes |-> <<>>]
      ELSE IF left
           THEN [ret |-> "true", writes |-> << <<pmp_next, "prev", offset>> >>]
      ELSE [ret |-> "abort", writes |-> <<>>]

\* The outcome of isLinkedDLDataEntry on memory mem: which branch is taken,
\* the value returned ("abort" for std::abort()), and the stores it makes,
\* each <<offset of the record written, field, value>>.
LinkOutcome(mem, pmp_record) ==
  LET offset   == addr2offset_checked(pmp_record)
      pmp_next == offset2addr_checked(mem[pmp_record].next)
      left     == is_linked_left(mem, pmp_record)
      right    == is_linked_right(mem, pmp_record)
  IN  IF left /\ right THEN [ret |-> "true", writes |-> <<>>]
      ELSE IF ~left /\ ~right THEN [ret |-> "false", writes |-> <<>>]
      ELSE IF left /\ ~right
           THEN [ret |-> "true", writes |-> << <<pmp_next, "prev", offset>> >>]
      ELSE [ret |-> "abort", writes |-> <<>>]

\* Memory after the stores of one call (each store is followed by its
\* pmem_persist, so the stored word is durable when the call returns).
RECURSIVE ApplyWrites(_, _)
ApplyWrites(mem, ws) ==
  IF ws = <<>> THEN mem
  ELSE LET w == Head(ws)
       IN  ApplyWrites([mem EXCEPT ![w[1]][w[2]] = w[3]], Tail(ws))

isLinkedDLDataEntry(pmp_record) ==
  /\ ~aborted
  /\ LET out == LinkOutcome(dl, pmp_record)
     IN  /\ dl' = ApplyWrites(dl, out.writes)
         /\ aborted' = (out.ret = "abort")
         /\ call' = [rec |-> pmp_record, ret |-> out.ret, writes |-> out.writes,
                     fromLeft  |-> checkDLRecordLinkageLeft(dl, pmp_record),
                     fromRight |-> checkDLRecordLinkageRight(dl, pmp_record),
                     pre |-> dl]
         /\ prevCall' = [call EXCEPT !.pre = <<>>]
  /\ LinkFrame

LinkInit ==
  /\ dl \in [Offsets -> DLRecord]
  /\ aborted = FALSE
  /\ call = NoCall
  /\ prevCall = NoCall

\* the linkage part when another part is the one under study
LinkIdle ==
  /\ dl = [o \in Offsets |-> [prev |-> o, next |-> o]]
  /\ aborted = FALSE
  /\ call = NoCall
  /\ prevCall = NoCall

LinkNext == \E n \in Offsets : isLinkedDLDataEntry(n)

(***************************************************************************)
(* Record persist protocol.                                                *)
(*                                                                         *)
(* Sizes are byte counts.  A string (key, value) is [size, data]: size     *)
(* bytes whose content is named by data.  Memory is kept per cell: a cell  *)
(* is a byte range [off, off + size) whose content is one token.  The      *)
(* destination of a call is the cells of the record image, followed by the *)
(* padding up to record_size and by the first word of the next record.     *)
(***************************************************************************)
kDataBufferSize == 1024 * 1024

\* sizeof(StringRecord), sizeof(DLRecord): total_size u32, timestamp u64,
\* type (with the key and value lengths) 8 bytes, checksum u32; a chained
\* record adds prev u64 and next u64.
SizeofStringRecord == 24
SizeofDLRecord == SizeofStringRecord + 8 + 8

sizeof_header(kind) ==
  IF kind = "String" THEN SizeofStringRecord ELSE SizeofDLRecord

\* write_size with the value's length left out
write_size_without_value(in) == in.key.size + sizeof_header(in.kind)

write_size(in) == in.key.size + in.value.size + sizeof_header(in.kind)

\* the staging buffer taken only below the threshold
with_buffer_below_threshold(in) == write_size(in) < kDataBufferSize

with_buffer(in) == write_size(in) <= kDataBufferSize

\* the checksum of a record: over its header fields, its key and its value
Checksum(record_size, timestamp, type, key, value) ==
  (record_size + 3 * timestamp + 5 * type + 7 * key.size + 11 * key.data
     + 13 * value.size + 17 * value.data) % 65521

Tok(tag, f) == [tag |-> tag, f |-> f]
OldCell == Tok("old", <<>>)
StaleCell == Tok("stale", <<>>)
TornCell == Tok("torn", <<>>)

Seg(off, size, data) == [off |-> off, size |-> size, data |-> data]

\* The record image the constructor lays down at its target address:
\* StringRecord::ConstructStringRecord / DLRecord::ConstructDLRecord.
ConstructRecord(in) ==
  LET h == sizeof_header(in.kind)
      head == << Seg(0, 20, Tok("meta", <<in.record_size, in.timestamp, in.type,
                                           in.key.size, in.value.size>>)),
                 Seg(20, 4, Tok("checksum",
                      <<Checksum(in.record_size, in.timestamp, in.type,
                                 in.key, in.value)>>)) >>
      links == IF in.kind = "DL"
               THEN << Seg(24, 16, Tok("links", <<in.prev, in.next>>)) >>
               ELSE << >>
  IN  head \o links \o
      << Seg(h, in.key.size, Tok("key", <<in.key.size, in.key.data>>)),
         Seg(h + in.key.size, in.value.size,
             Tok("value", <<in.value.size, in.value.data>>)) >>

\* number of cells of the record image
ImageCells(in) == IF in.kind = "DL" THEN 5 ELSE 4

\* The byte ranges of the destination: the image's cells, the padding
\* [write_size, record_size) and the next record's first word.
DestLayout(in) ==
  LET img == ConstructRecord(in)
      h == sizeof_header(in.kind)
      w == h + in.key.size + in.value.size
  IN  [i \in 1..Len(img) |-> [off |-> img[i].off, size |-> img[i].size]]
      \o << [off |-> w, size |-> in.record_size - w],
            [off |-> in.record_size, size |-> 8] >>

\* what is read at [off, off + size) of a memory holding the segments segs
ReadSegs(segs, off, size) ==
  IF \E j \in DOMAIN segs : segs[j].off = off /\ segs[j].size = size
  THEN LET j == CHOOSE k \in DOMAIN segs : segs[k].off = off /\ segs[k].size = size
       IN  segs[j].data
  ELSE StaleCell

\* a construction that also clears the bytes after the image
StoreSegsAndClearRest(cells, lay, segs) ==
  [i \in DOMAIN cells |->
     IF lay[i].size > 0
        /\ \E j \in DOMAIN segs : segs[j].off = lay[i].off /\ segs[j].size = lay[i].size
     THEN ReadSegs(segs, lay[i].off, lay[i].size)
     ELSE [tag |-> "zero", f |-> <<>>]]

\* placement construction at the destination: each segment is stored at its
\* own byte range; nothing else is touched
StoreSegs(cells, lay, segs) ==
  [i \in DOMAIN cells |->
     IF lay[i].size > 0
        /\ \E j \in DOMAIN segs : segs[j].off = lay[i].off /\ segs[j].size = lay[i].size
     THEN ReadSegs(segs, lay[i].off, lay[i].size)
     ELSE cells[i]]

\* pmem_memcpy that copies the whole staging buffer
pmem_memcpy_whole_buffer(cells, lay, buf, n) ==
  [i \in DOMAIN cells |->
     IF lay[i].size > 0 /\ lay[i].off + lay[i].size <= buf.size
     THEN ReadSegs(buf.segs, lay[i].off, lay[i].size)
     ELSE cells[i]]

\* pmem_memcpy(addr, data_cpy_target, n, PMEM_F_MEM_NONTEMPORAL): the first n
\* bytes of the buffer are stored at the destination.
pmem_memcpy(cells, lay, buf, n) ==
  [i \in DOMAIN cells |->
     IF lay[i].size > 0 /\ lay[i].off + lay[i].size <= n
     THEN ReadSegs(buf.segs, lay[i].off, lay[i].size)
     ELSE IF lay[i].size > 0 /\ lay[i].off < n
     THEN TornCell
     ELSE cells[i]]

\* pmem_drain(): every store issued before it is on the media
pmem_drain(durable, visible) == visible

\* pmem_persist(addr, n): the bytes [addr, addr + n) are flushed and fenced
pmem_persist(durable, visible, lay, n) ==
  [i \in DOMAIN durable |->
     IF lay[i].size > 0 /\ lay[i].off < n THEN visible[i] ELSE durable[i]]

\* the target that is always the destination
CopyTargetAlwaysAddr(in) == "addr"

\* the two targets exchanged
CopyTargetSwapped(in) ==
  IF in.key.size + in.value.size + sizeof_header(in.kind) <= kDataBufferSize
  THEN "addr" ELSE "buffer"

\* data_cpy_target of the call
CopyTarget(in) == IF with_buffer(in) THEN "buffer" ELSE "addr"

EmptyBuffer == [size |-> 0, segs |-> <<>>]

NoInput == [kind |-> "none"]

\* ---- inputs of the calls ----
KeyArgs == {[size |-> 2, data |-> d] : d \in 1..2}

\* value lengths: small, the largest that still takes the staging buffer,
\* and the smallest that does not
ValueSizes(kind, key) ==
  LET room == kDataBufferSize - sizeof_header(kind) - key.size
  IN  {3, room, room + 1}

ValueArgs(kind, key) == {[size |-> n, data |-> 7] : n \in ValueSizes(kind, key)}

\* record_size: the image's size, or that rounded up by the allocator
RecordSizes(w) == {w, w + 8}

StringDataRecord == 1
SortedDataRecord == 2

StringInputs ==
  {[kind |-> "String", addr |-> nPersists + 1, record_size |-> rs,
    timestamp |-> nPersists + 1, type |-> StringDataRecord, prev |-> 0,
    next |-> 0, key |-> k, value |-> v] :
     <<k, v, rs>> \in
       UNION {UNION {{<<k, v, rs>> :
                        rs \in RecordSizes(SizeofStringRecord + k.size + v.size)} :
                      v \in ValueArgs("String", k)} : k \in KeyArgs}}

DLInputs ==
  {[kind |-> "DL", addr |-> nPersists + 1, record_size |-> rs,
    timestamp |-> nPersists + 1, type |-> SortedDataRecord, prev |-> pn[1],
    next |-> pn[2], key |-> k, value |-> v] :
     <<k, v, rs, pn>> \in
       UNION {UNION {{<<k, v, rs, pn>> :
                        rs \in RecordSizes(SizeofDLRecord + k.size + v.size),
                        pn \in {<<1, 2>>, <<2, 1>>}} :
                      v \in ValueArgs("DL", k)} : k \in KeyArgs}}

\* ---- the steps of a persist call ----
\* lines 16-26 / 44-54: write_size, with_buffer, the lazy resize, the target
BeginPersist(in) ==
  /\ pc = "idle"
  /\ nPersists < MaxPersists
  /\ inp' = in
  /\ thread_data_buffer' =
       IF with_buffer(in) /\ thread_data_buffer.size = 0
       THEN [size |-> kDataBufferSize, segs |-> <<>>]
       ELSE thread_data_buffer
  /\ data_cpy_target' = CopyTarget(in)
  /\ vis' = [i \in 1..Len(DestLayout(in)) |-> OldCell]
  /\ dur' = [i \in 1..Len(DestLayout(in)) |-> OldCell]
  /\ ret' = 0
  /\ pc' = "construct"
  /\ minWriteSize' = IF minWriteSize = 0 \/ write_size(in) < minWriteSize
                     THEN write_size(in) ELSE minWriteSize
  /\ bufferAtCall' = thread_data_buffer
  /\ UNCHANGED <<nPersists, crashPc>>
  /\ PersistFrame

PersistStringRecord == \E in \in StringInputs : BeginPersist(in)

PersistDLRecord == \E in \in DLInputs : BeginPersist(in)

\* lines 27-28 / 55-56: the record is constructed at data_cpy_target
ConstructStep ==
  /\ pc = "construct"
  /\ IF data_cpy_target = "buffer"
     THEN /\ thread_data_buffer' =
               [thread_data_buffer EXCEPT !.segs = ConstructRecord(inp)]
          /\ vis' = vis
     ELSE /\ vis' = StoreSegs(vis, DestLayout(inp), ConstructRecord(inp))
          /\ thread_data_buffer' = thread_data_buffer
  /\ pc' = IF with_buffer(inp) THEN "copy" ELSE "flush"
  /\ UNCHANGED <<inp, data_cpy_target, dur, ret, nPersists, crashPc>>
  /\ UNCHANGED persistHistory
  /\ PersistFrame

\* line 30 / 58
MemcpyStep ==
  /\ pc = "copy"
  /\ vis' = pmem_memcpy(vis, DestLayout(inp), thread_data_buffer, write_size(inp))
  /\ pc' = "drain"
  /\ UNCHANGED <<inp, data_cpy_target, thread_data_buffer, dur, ret, nPersists,
                 crashPc>>
  /\ UNCHANGED persistHistory
  /\ PersistFrame

\* line 31 / 59
DrainStep ==
  /\ pc = "drain"
  /\ dur' = pmem_drain(dur, vis)
  /\ pc' = "return"
  /\ UNCHANGED <<inp, data_cpy_target, thread_data_buffer, vis, ret, nPersists,
                 crashPc>>
  /\ UNCHANGED persistHistory
  /\ PersistFrame

\* line 33 / 61
FlushStep ==
  /\ pc = "flush"
  /\ dur' = pmem_persist(dur, vis, DestLayout(inp), write_size(inp))
  /\ pc' = "return"
  /\ UNCHANGED <<inp, data_cpy_target, thread_data_buffer, vis, ret, nPersists,
                 crashPc>>
  /\ UNCHANGED persistHistory
  /\ PersistFrame

\* line 36 / 64
ReturnStep ==
  /\ pc = "return"
  /\ ret' = inp.addr
  /\ nPersists' = nPersists + 1
  /\ pc' = "idle"
  /\ UNCHANGED <<inp, data_cpy_target, thread_data_buffer, vis, dur, crashPc>>
  /\ UNCHANGED persistHistory
  /\ PersistFrame

\* The hardware writes back one stored cell (a cache line evicted, a
\* write-combining buffer emptied) at a time of its own choosing.
Evict ==
  /\ pc \in {"construct", "copy", "drain", "flush", "return"}
  /\ \E i \in DOMAIN vis :
        /\ vis[i] # dur[i]
        /\ dur' = [dur EXCEPT ![i] = vis[i]]
  /\ UNCHANGED <<pc, inp, data_cpy_target, thread_data_buffer, vis, ret,
                 nPersists, crashPc>>
  /\ UNCHANGED persistHistory
  /\ PersistFrame

\* The process dies: what is on the media stays, everything volatile is gone.
Crash ==
  /\ pc # "crashed"
  /\ inp # NoInput
  /\ crashPc' = pc
  /\ pc' = "crashed"
  /\ vis' = dur
  /\ thread_data_buffer' = EmptyBuffer
  /\ UNCHANGED <<inp, data_cpy_target, dur, ret, nPersists>>
  /\ UNCHANGED persistHistory
  /\ PersistFrame

PersistInit ==
  /\ pc = "idle"
  /\ inp = NoInput
  /\ data_cpy_target = "none"
  /\ thread_data_buffer = EmptyBuffer
  /\ vis = <<>>
  /\ dur = <<>>
  /\ ret = 0
  /\ nPersists = 0
  /\ crashPc = "none"
  /\ minWriteSize = 0
  /\ bufferAtCall = EmptyBuffer

PersistIdle == PersistInit

PersistNext ==
  \/ PersistStringRecord
  \/ PersistDLRecord
  \/ ConstructStep
  \/ MemcpyStep
  \/ DrainStep
  \/ FlushStep
  \/ ReturnStep
  \/ Evict
  \/ Crash

(***************************************************************************)
(* Timestamp authority.                                                    *)
(***************************************************************************)
Writers == 1..NumWriters

NoTs == 0 - 1

Max(a, b) == IF a >= b THEN a ELSE b

\* get_cpu_tsc(): rdtsc reads the hardware counter
get_cpu_tsc == tsc

\* get_timestamp with the two counter terms exchanged
get_timestamp_swapped(now) ==
  ts_on_startup_ - now + newest_version_on_startup_

\* get_timestamp without the rebase on the recovered version
get_timestamp_no_rebase(now) == now - ts_on_startup_

\* get_timestamp(), now being the value get_cpu_tsc() returned.  The values
\* of the model stay far below 2^64, where uint64_t arithmetic is exact.
get_timestamp(now) == now - ts_on_startup_ + newest_version_on_startup_

\* the cycle counter advances
Tick ==
  /\ tsc < MaxTsc
  /\ tsc' = tsc + 1
  /\ UNCHANGED <<ts_on_startup_, newest_version_on_startup_, lastTs, prevTs,
                 lastTsc, prevTsc, mediaTs, issuedTs, issuedBefore, mediaBefore,
                 restarts>>
  /\ TimeFrame

\* a writer thread takes a timestamp for the record it is about to write
GetTimestamp(t) ==
  LET now == get_cpu_tsc
      res == get_timestamp(now)
  IN  /\ lastTs' = [lastTs EXCEPT ![t] = res]
      /\ prevTs' = [prevTs EXCEPT ![t] = lastTs[t]]
      /\ lastTsc' = [lastTsc EXCEPT ![t] = now]
      /\ prevTsc' = [prevTsc EXCEPT ![t] = lastTsc[t]]
      /\ issuedTs' = Max(issuedTs, res)
      /\ UNCHANGED <<tsc, ts_on_startup_, newest_version_on_startup_, mediaTs,
                     issuedBefore, mediaBefore, restarts>>
      /\ TimeFrame

\* the thread's record, carrying its latest timestamp, reaches the media
WriteRecord(t) ==
  /\ lastTs[t] # NoTs
  /\ mediaTs' = Max(mediaTs, lastTs[t])
  /\ UNCHANGED <<tsc, ts_on_startup_, newest_version_on_startup_, lastTs, prevTs,
                 lastTsc, prevTsc, issuedTs, issuedBefore, mediaBefore, restarts>>
  /\ TimeFrame

\* The engine stops (cleanly or by a crash) and is opened again: the counter
\* goes on or restarts from a lower value, recovery takes the highest
\* timestamp on the media, and startup reads the counter.
Restart ==
  /\ restarts < MaxRestarts
  /\ \E c \in 0..tsc :
        /\ tsc' = c
        /\ ts_on_startup_' = c
  /\ newest_version_on_startup_' = mediaTs
  /\ lastTs' = [t \in Writers |-> NoTs]
  /\ prevTs' = [t \in Writers |-> NoTs]
  /\ lastTsc' = [t \in Writers |-> NoTs]
  /\ prevTsc' = [t \in Writers |-> NoTs]
  /\ issuedBefore' = issuedTs
  /\ mediaBefore' = mediaTs
  /\ restarts' = restarts + 1
  /\ UNCHANGED <<mediaTs, issuedTs>>
  /\ TimeFrame

\* a new store opened on an empty media
TimeInit ==
  /\ tsc \in 0..1
  /\ ts_on_startup_ = tsc
  /\ newest_version_on_startup_ = 0
  /\ lastTs = [t \in Writers |-> NoTs]
  /\ prevTs = [t \in Writers |-> NoTs]
  /\ lastTsc = [t \in Writers |-> NoTs]
  /\ prevTsc = [t \in Writers |-> NoTs]
  /\ mediaTs = 0
  /\ issuedTs = NoTs
  /\ issuedBefore = NoTs
  /\ mediaBefore = 0
  /\ restarts = 0

TimeIdle ==
  /\ tsc = 0
  /\ ts_on_startup_ = 0
  /\ newest_version_on_startup_ = 0
  /\ lastTs = [t \in Writers |-> NoTs]
  /\ prevTs = [t \in Writers |-> NoTs]
  /\ lastTsc = [t \in Writers |-> NoTs]
  /\ prevTsc = [t \in Writers |-> NoTs]
  /\ mediaTs = 0
  /\ issuedTs = NoTs
  /\ issuedBefore = NoTs
  /\ mediaBefore = 0
  /\ restarts = 0

TimeNext ==
  \/ Tick
  \/ \E t \in Writers : GetTimestamp(t)
  \/ \E t \in Writers : WriteRecord(t)
  \/ Restart

(***************************************************************************)
(* Chunk based allocator.  Offsets and sizes are byte counts; an offset is *)
(* the address itself (offset2addr / addr2offset are casts).               *)
(***************************************************************************)
AllocThreads == 1..NumAllocThreads

chunk_size_ == 1048576

\* a thread cache that claims a whole chunk it never acquired
ThreadCacheWithUnownedBytes ==
  [chunk_addr |-> 0, usable_bytes |-> chunk_size_, allocated_chunks |-> <<>>]

\* struct ThreadCache as constructed: chunk_addr = nullptr, usable_bytes = 0,
\* no allocated chunks
ThreadCache ==
  [chunk_addr |-> 0, usable_bytes |-> 0, allocated_chunks |-> <<>>]

\* malloc(chunk_size_): a block no other block overlaps; the k-th block the
\* heap hands out starts at k * chunk_size_, so blocks may be adjacent
HeapBlock(k) == k * chunk_size_

\* sizes the writers ask for, none above chunk_size_
AllocSizes == {400000, 700000, chunk_size_}

NoRequest == [size |-> 0, id |-> 0]

\* Allocate(size), first part: when the thread's chunk has fewer usable bytes
\* than asked for, a new chunk is taken from the heap and the rest of the old
\* one is abandoned; when the heap has none, the call returns an empty entry.
AllocateBegin(t, size) ==
  /\ request[t] = NoRequest
  /\ nAllocs < MaxAllocs
  /\ nAllocs' = nAllocs + 1
  /\ IF thread_cache_[t].usable_bytes < size
     THEN IF heapChunks < MaxChunks
          THEN /\ heapChunks' = heapChunks + 1
               /\ thread_cache_' =
                    [thread_cache_ EXCEPT
                       ![t] = [chunk_addr |-> HeapBlock(heapChunks + 1),
                               usable_bytes |-> chunk_size_,
                               allocated_chunks |->
                                 Append(thread_cache_[t].allocated_chunks,
                                        HeapBlock(heapChunks + 1))]]
               /\ request' = [request EXCEPT
                                ![t] = [size |-> size, id |-> nAllocs + 1]]
          ELSE UNCHANGED <<heapChunks, thread_cache_, request>>
     ELSE /\ request' = [request EXCEPT
                           ![t] = [size |-> size, id |-> nAllocs + 1]]
          /\ UNCHANGED <<heapChunks, thread_cache_>>
  /\ UNCHANGED live
  /\ AllocFrame

\* Allocate(size), second part: the entry is cut at the cursor, which is
\* bumped past it
AllocateFinish(t) ==
  /\ request[t] # NoRequest
  /\ live' = live \cup {[id |-> request[t].id,
                         thread |-> t,
                         offset |-> thread_cache_[t].chunk_addr,
                         size |-> request[t].size]}
  /\ thread_cache_' =
       [thread_cache_ EXCEPT
          ![t].chunk_addr = @ + request[t].size,
          ![t].usable_bytes = @ - request[t].size]
  /\ request' = [request EXCEPT ![t] = NoRequest]
  /\ UNCHANGED <<heapChunks, nAllocs>>
  /\ AllocFrame

\* Free(entry): the entry is the caller's no longer; the allocator keeps no
\* free list, the space is not handed out again
Free(e) ==
  /\ e \in live
  /\ live' = live \ {e}
  /\ UNCHANGED <<thread_cache_, heapChunks, request, nAllocs>>
  /\ AllocFrame

AllocInit ==
  /\ thread_cache_ = [t \in AllocThreads |-> ThreadCache]
  /\ heapChunks = 0
  /\ request = [t \in AllocThreads |-> NoRequest]
  /\ live = {}
  /\ nAllocs = 0

AllocIdle == AllocInit

AllocNext ==
  \/ \E t \in AllocThreads, size \in AllocSizes : AllocateBegin(t, size)
  \/ \E t \in AllocThreads : AllocateFinish(t)
  \/ \E e \in live : Free(e)

(***************************************************************************)
(* Recovery scan.  Each shard is the chunks of one writer thread: its      *)
(* records lie one after the other, a record at byte offset b of the shard *)
(* being followed by the record at b + record_size.  The writers place     *)
(* records, a fault may change a payload byte, and then the recovery scans *)
(* every shard, the shards in any interleaving.                            *)
(***************************************************************************)
Shards == 1..NumShards

RecordTimestamps == 1..MaxRecordTs

\* a key-version: a key together with the timestamp of one write of it
KeyVersions == KeyArgs \X RecordTimestamps

\* the value written under a key (its length depends on the key, so the
\* records of a shard differ in size)
ValueOf(key) == [size |-> 3 + 8 * (key.data - 1), data |-> 7]

\* a flat record as a completed persist call leaves it on the media
MediaRecord(key, timestamp) ==
  LET value == ValueOf(key)
      record_size == SizeofStringRecord + key.size + value.size
  IN  [record_size |-> record_size, timestamp |-> timestamp,
       type |-> StringDataRecord, key |-> key, value |-> value,
       checksum |-> Checksum(record_size, timestamp, StringDataRecord,
                             key, value)]

\* the byte offset, in its shard, of the i-th record; of the end of the
\* shard for i = Len(recs) + 1
RECURSIVE RecordOffset(_, _)
RecordOffset(recs, i) ==
  IF i = 1 THEN 0 ELSE RecordOffset(recs, i - 1) + recs[i - 1].record_size

ShardEnd(recs) == RecordOffset(recs, Len(recs) + 1)

\* the offsets at which a record starts
Boundaries(recs) == {RecordOffset(recs, i) : i \in 1..Len(recs)}

RecordAt(recs, off) ==
  recs[CHOOSE i \in 1..Len(recs) : RecordOffset(recs, i) = off]

\* ValidateRecord: the stored checksum against the one computed over the
\* header fields, the key and the value
ValidateRecord(rec) ==
  rec.checksum = Checksum(rec.record_size, rec.timestamp, rec.type,
                          rec.key, rec.value)

\* a cursor that trusts the size field of a valid record only
CursorAdvancePastValidOnly(rec) ==
  IF ValidateRecord(rec) THEN rec.record_size ELSE SizeofStringRecord

\* what the scan cursor advances by: the record's declared size, read before
\* the checksum is verified
CursorAdvance(rec) == rec.record_size

NoEntry == [timestamp |-> NoTs, shard |-> 0, off |-> 0]

\* a restore rule under which a record with an equal timestamp also wins
SupersedesOrTies(rec, entry) ==
  entry = NoEntry \/ rec.timestamp >= entry.timestamp

\* the record wins against the entry its key has in the index: the higher
\* timestamp wins, a tie is lost by the record scanned later
Supersedes(rec, entry) ==
  entry = NoEntry \/ rec.timestamp > entry.timestamp

\* the records on the media, each named by its shard and its position
MediaRecords ==
  UNION {{<<s, i>> : i \in 1..Len(media[s])} : s \in Shards}

\* a writer thread persists one more record in its shard; the timestamps of
\* one thread never decrease
PlaceRecord(s, key, timestamp) ==
  /\ ~recovering
  /\ Cardinality(MediaRecords) < MaxMediaRecords
  /\ Len(media[s]) > 0 => timestamp >= media[s][Len(media[s])].timestamp
  /\ media' = [media EXCEPT ![s] = Append(@, MediaRecord(key, timestamp))]
  /\ UNCHANGED <<recovering, cursor, scanPc, current, hash_table_, visited,
                 restored, restoreCount>>
  /\ RecoverFrame

\* a fault changes one byte of the value of a record on the media
CorruptByte(s) ==
  /\ ~recovering
  /\ \E i \in 1..Len(media[s]) :
        /\ ValidateRecord(media[s][i])
        /\ media' = [media EXCEPT ![s][i].value.data = @ + 1]
  /\ UNCHANGED <<recovering, cursor, scanPc, current, hash_table_, visited,
                 restored, restoreCount>>
  /\ RecoverFrame

\* the engine is reopened: Recovery() starts RestoreData for every shard
Recovery ==
  /\ ~recovering
  /\ recovering' = TRUE
  /\ UNCHANGED <<media, cursor, scanPc, current, hash_table_, visited,
                 restored, restoreCount>>
  /\ RecoverFrame

\* Scanning -> ValidatingRecord: the size field of the record at the cursor
\* is read and the cursor advances by it.  Bytes that do not start a record
\* fail the size sanity check and end the scan of the shard.
ScanRecord(s) ==
  /\ recovering
  /\ scanPc[s] = "Scanning"
  /\ cursor[s] < ShardEnd(media[s])
  /\ IF cursor[s] \in Boundaries(media[s])
     THEN /\ current' = [current EXCEPT ![s] = cursor[s]]
          /\ cursor' = [cursor EXCEPT
                          ![s] = @ + CursorAdvance(RecordAt(media[s], @))]
          /\ scanPc' = [scanPc EXCEPT ![s] = "ValidatingRecord"]
     ELSE /\ scanPc' = [scanPc EXCEPT ![s] = "Done"]
          /\ UNCHANGED <<current, cursor>>
  /\ UNCHANGED <<recovering, media, hash_table_, visited, restored,
                 restoreCount>>
  /\ RecoverFrame

\* ValidatingRecord -> Restoring when the checksum matches, back to Scanning
\* when it does not
ValidatingRecord(s) ==
  /\ recovering
  /\ scanPc[s] = "ValidatingRecord"
  /\ visited' = [visited EXCEPT ![s] = @ \cup {current[s]}]
  /\ scanPc' = [scanPc EXCEPT
                  ![s] = IF ValidateRecord(RecordAt(media[s], current[s]))
                         THEN "Restoring" ELSE "Scanning"]
  /\ UNCHANGED <<recovering, media, cursor, current, hash_table_, restored,
                 restoreCount>>
  /\ RecoverFrame

\* Restoring: the record's timestamp is compared with the entry its key has
\* in the index; when the record wins, the restore callback installs it
RestoreStringRecord(s) ==
  /\ recovering
  /\ scanPc[s] = "Restoring"
  /\ LET rec == RecordAt(media[s], current[s])
     IN  IF Supersedes(rec, hash_table_[rec.key])
         THEN /\ hash_table_' =
                   [hash_table_ EXCEPT
                      ![rec.key] = [timestamp |-> rec.timestamp, shard |-> s,
                                    off |-> current[s]]]
              /\ restored' = restored \cup {<<s, current[s]>>}
              /\ restoreCount' =
                   [restoreCount EXCEPT ![<<rec.key, rec.timestamp>>] = @ + 1]
         ELSE UNCHANGED <<hash_table_, restored, restoreCount>>
  /\ scanPc' = [scanPc EXCEPT ![s] = "Scanning"]
  /\ UNCHANGED <<recovering, media, cursor, current, visited>>
  /\ RecoverFrame

\* * -> Done: the cursor reached the end of the shard's chunks
ScanDone(s) ==
  /\ recovering
  /\ scanPc[s] = "Scanning"
  /\ cursor[s] >= ShardEnd(media[s])
  /\ scanPc' = [scanPc EXCEPT ![s] = "Done"]
  /\ UNCHANGED <<recovering, media, cursor, current, hash_table_, visited,
                 restored, restoreCount>>
  /\ RecoverFrame

RecoverInit ==
  /\ recovering = FALSE
  /\ media = [s \in Shards |-> <<>>]
  /\ cursor = [s \in Shards |-> 0]
  /\ scanPc = [s \in Shards |-> "Scanning"]
  /\ current = [s \in Shards |-> 0]
  /\ hash_table_ = [k \in KeyArgs |-> NoEntry]
  /\ visited = [s \in Shards |-> {}]
  /\ restored = {}
  /\ restoreCount = [kv \in KeyVersions |-> 0]

RecoverIdle == RecoverInit

RecoverNext ==
  \/ \E s \in Shards, key \in KeyArgs, timestamp \in RecordTimestamps :
        PlaceRecord(s, key, timestamp)
  \/ \E s \in Shards : CorruptByte(s)
  \/ Recovery
  \/ \E s \in Shards : ScanRecord(s)
  \/ \E s \in Shards : ValidatingRecord(s)
  \/ \E s \in Shards : RestoreStringRecord(s)
  \/ \E s \in Shards : ScanDone(s)

(***************************************************************************)
(* Size checks.  A length here is a size_t that may exceed 2^32, so it is  *)
(* kept as two 16 bit wide limbs <<hi, lo>>, standing for hi * 2^16 + lo   *)
(* with lo < 2^16.  A string is [size, data].                              *)
(***************************************************************************)
UINT16_MAX == <<0, 65535>>
UINT32_MAX == <<65535, 65535>>

\* a <= b on lengths
SizeLeq(a, b) == a[1] < b[1] \/ (a[1] = b[1] /\ a[2] <= b[2])

\* a key check that lets through what fits the value's limit
CheckKeySizeUpToUint32(key) == SizeLeq(key.size, UINT32_MAX)

CheckKeySize(key) == SizeLeq(key.size, UINT16_MAX)

CheckValueSize(value) == SizeLeq(value.size, UINT32_MAX)

\* lengths of keys and collection names: 1, UINT16_MAX, UINT16_MAX + 1,
\* UINT32_MAX + 1
NameSizes == {<<0, 1>>, <<0, 65535>>, <<1, 0>>, <<65536, 0>>}

\* lengths of values: 1, UINT16_MAX + 1, UINT32_MAX, UINT32_MAX + 1
ValueLengths == {<<0, 1>>, <<1, 0>>, <<65535, 65535>>, <<65536, 0>>}

Names == {[size |-> n, data |-> d] : n \in NameSizes, d \in 1..NumNames}

Values == {[size |-> n, data |-> 7] : n \in ValueLengths}

SortedHeaderRecord == 3

NoSizeCall == [op |-> "none"]

\* SearchOrInitPersistentList(collection, list, init, header_type): the
\* collection is looked up; when it does not exist and init is set, space
\* for its header is allocated, the header record is persisted and the
\* collection is created.  The result is the status and the state after.
SearchOrInitPersistentList(collection, init, header_type) ==
  IF collection \in skiplists_
  THEN [status |-> "Ok", lists |-> skiplists_, entries |-> spaceEntries,
        records |-> headerRecords]
  ELSE IF init
  THEN [status |-> "Ok", lists |-> skiplists_ \cup {collection},
        entries |-> spaceEntries + 1, records |-> headerRecords + 1]
  ELSE [status |-> "NotFound", lists |-> skiplists_, entries |-> spaceEntries,
        records |-> headerRecords]

SearchOrInitSkiplist(collection, init) ==
  /\ IF ~CheckKeySize(collection)
     THEN /\ sizeCall' = [op |-> "SearchOrInitSkiplist", key |-> collection,
                          init |-> init, status |-> "InvalidDataSize",
                          called |-> FALSE,
                          pre |-> <<skiplists_, spaceEntries, headerRecords>>]
          /\ UNCHANGED <<skiplists_, spaceEntries, headerRecords>>
     ELSE LET r == SearchOrInitPersistentList(collection, init,
                                              SortedHeaderRecord)
          IN  /\ sizeCall' = [op |-> "SearchOrInitSkiplist", key |-> collection,
                              init |-> init, status |-> r.status,
                              called |-> TRUE,
                              pre |-> <<skiplists_, spaceEntries,
                                        headerRecords>>]
              /\ skiplists_' = r.lists
              /\ spaceEntries' = r.entries
              /\ headerRecords' = r.records
  /\ SizeFrame

\* a write entry point applies the two checks to the key and the value it
\* is given
CheckKeyValueSize(key, value) ==
  /\ sizeCall' = [op |-> "CheckKeyValueSize", key |-> key, value |-> value,
                  keyOk |-> CheckKeySize(key),
                  valueOk |-> CheckValueSize(value)]
  /\ UNCHANGED <<skiplists_, spaceEntries, headerRecords>>
  /\ SizeFrame

SizeInit ==
  /\ skiplists_ = {}
  /\ spaceEntries = 0
  /\ headerRecords = 0
  /\ sizeCall = NoSizeCall

SizeIdle == SizeInit

SizeNext ==
  \/ \E collection \in Names, init \in BOOLEAN :
        SearchOrInitSkiplist(collection, init)
  \/ \E key \in Names, value \in Values : CheckKeyValueSize(key, value)

(***************************************************************************)
(* Chained insertion and the recovery from a crash in the middle of it.    *)
(* The list is circular: the header record of the collection, alone, is    *)
(* its own predecessor and successor.  One writer inserts (the caller      *)
(* serializes the inserts of a list); after a crash the recovery runs the  *)
(* linkage check on the chained records whose image is whole on the media. *)
(***************************************************************************)
HeaderOffset == 1

NoInsert == [n |-> 0, prev |-> 0, next |-> 0, step |-> 0]

\* step 1 begins: PersistDLRecord is called for the new record, at the next
\* free offset, with prev and next naming the neighbours it goes between
InsertPersistDLRecord(p) ==
  /\ ~crashed
  /\ ins = NoInsert \/ ins.step = 3
  /\ p \in persisted
  /\ Cardinality(persisted) < NumRecords
  /\ ins' = [n |-> Cardinality(persisted) + 1, prev |-> p,
             next |-> dl[p].next, step |-> 0]
  /\ UNCHANGED <<dl, aborted, call, prevCall, persisted, crashed>>
  /\ InsertFrame

\* step 1 ends: PersistDLRecord has returned, the image of the new record is
\* whole on the media
InsertRecordPersisted ==
  /\ ~crashed
  /\ ins # NoInsert /\ ins.step = 0
  /\ dl' = [dl EXCEPT ![ins.n] = [prev |-> ins.prev, next |-> ins.next]]
  /\ persisted' = persisted \cup {ins.n}
  /\ ins' = [ins EXCEPT !.step = 1]
  /\ UNCHANGED <<aborted, call, prevCall, crashed>>
  /\ InsertFrame

\* step 2: predecessor.next = N, one persisted word
InsertLinkPrev ==
  /\ ~crashed
  /\ ins.step = 1
  /\ dl' = [dl EXCEPT ![ins.prev].next = ins.n]
  /\ ins' = [ins EXCEPT !.step = 2]
  /\ UNCHANGED <<aborted, call, prevCall, persisted, crashed>>
  /\ InsertFrame

\* step 3: successor.prev = N, one persisted word
InsertLinkNext ==
  /\ ~crashed
  /\ ins.step = 2
  /\ dl' = [dl EXCEPT ![ins.next].prev = ins.n]
  /\ ins' = [ins EXCEPT !.step = 3]
  /\ UNCHANGED <<aborted, call, prevCall, persisted, crashed>>
  /\ InsertFrame

\* the process dies, between any two steps or during one
InsertCrash ==
  /\ ~crashed
  /\ crashed' = TRUE
  /\ UNCHANGED <<dl, aborted, call, prevCall, ins, persisted>>
  /\ InsertFrame

\* recovery: the linkage check runs on a chained record that passed its
\* checksum
RecoverLinkage(n) ==
  /\ crashed
  /\ n \in persisted
  /\ isLinkedDLDataEntry(n)

InsertInit ==
  /\ dl = [o \in Offsets |-> [prev |-> o, next |-> o]]
  /\ aborted = FALSE
  /\ call = NoCall
  /\ prevCall = NoCall
  /\ ins = NoInsert
  /\ persisted = {HeaderOffset}
  /\ crashed = FALSE

InsertIdle ==
  /\ ins = NoInsert
  /\ persisted = {}
  /\ crashed = FALSE

InsertNext ==
  \/ \E p \in Offsets : InsertPersistDLRecord(p)
  \/ InsertRecordPersisted
  \/ InsertLinkPrev
  \/ InsertLinkNext
  \/ InsertCrash
  \/ \E n \in Offsets : RecoverLinkage(n)

InitLink    == LinkInit /\ PersistIdle /\ TimeIdle /\ AllocIdle /\ RecoverIdle
                 /\ SizeIdle /\ InsertIdle
InitPersist == PersistInit /\ LinkIdle /\ TimeIdle /\ AllocIdle /\ RecoverIdle
                 /\ SizeIdle /\ InsertIdle
InitTime    == TimeInit /\ LinkIdle /\ PersistIdle /\ AllocIdle /\ RecoverIdle
                 /\ SizeIdle /\ InsertIdle
InitAlloc   == AllocInit /\ LinkIdle /\ PersistIdle /\ TimeIdle /\ RecoverIdle
                 /\ SizeIdle /\ InsertIdle
InitRecover == RecoverInit /\ LinkIdle /\ PersistIdle /\ TimeIdle /\ AllocIdle
                 /\ SizeIdle /\ InsertIdle
InitSize    == SizeInit /\ LinkIdle /\ PersistIdle /\ TimeIdle /\ AllocIdle
                 /\ RecoverIdle /\ InsertIdle
InitInsert  == InsertInit /\ PersistIdle /\ TimeIdle /\ AllocIdle /\ RecoverIdle
                 /\ SizeIdle

SpecLink    == InitLink /\ [][LinkNext]_vars
SpecPersist == InitPersist /\ [][PersistNext]_vars
SpecTime    == InitTime /\ [][TimeNext]_vars
SpecAlloc   == InitAlloc /\ [][AllocNext]_vars
SpecRecover == InitRecover /\ [][RecoverNext]_vars
SpecSize    == InitSize /\ [][SizeNext]_vars
SpecInsert  == InitInsert /\ [][InsertNext]_vars

(***************************************************************************)
(* Claims about the linkage check (checked under SpecLink).                *)
(***************************************************************************)
\* what the latest call saw before it acted
SawLeftOnly  == call.rec # 0 /\ call.fromLeft /\ ~call.fromRight
SawRightOnly == call.rec # 0 /\ ~call.fromLeft /\ call.fromRight
SawNeither   == call.rec # 0 /\ ~call.fromLeft /\ ~call.fromRight
SawBoth      == call.rec # 0 /\ call.fromLeft /\ call.fromRight

FullyLinked(mem, n) ==
  checkDLRecordLinkageLeft(mem, n) /\ checkDLRecordLinkageRight(mem, n)

\* C1: a record linked only from the left (record(N.prev).next = N and
\* record(N.next).prev # N) is repaired by the check: it stores N into
\* record(N.next).prev, returns true, leaves N fully linked, does not abort.
C1_LeftOnlyIsRepaired ==
  SawLeftOnly =>
    /\ call.ret = "true"
    /\ ~aborted
    /\ call.writes = << <<call.pre[call.rec].next, "prev", call.rec>> >>
    /\ FullyLinked(dl, call.rec)

\* C2: a record linked only from the right (record(N.next).prev = N and
\* record(N.prev).next # N) makes the check abort, with no store to any
\* record; it is never repaired and never reported as linked.
C2_RightOnlyAborts ==
  SawRightOnly =>
    /\ call.ret = "abort"
    /\ aborted
    /\ call.writes = <<>>
    /\ dl = call.pre

\* C3: repair is idempotent: when a call repaired N and returned true, the
\* next call on N sees N fully linked, returns true and stores nothing.
C3_RepairIdempotent ==
  (prevCall.rec # 0 /\ prevCall.rec = call.rec
     /\ prevCall.ret = "true" /\ prevCall.writes # <<>>) =>
    /\ call.fromLeft /\ call.fromRight
    /\ call.ret = "true"
    /\ call.writes = <<>>

\* C4: a record linked from neither side makes the check return false and
\* store nothing: every record is as it was before the call.
C4_UnlinkedReturnsFalse ==
  SawNeither =>
    /\ call.ret = "false"
    /\ ~aborted
    /\ call.writes = <<>>
    /\ dl = call.pre

C4_Witness == SawNeither /\ call.ret = "false" /\ dl = call.pre

(***************************************************************************)
(* Claims about the persist protocol (checked under SpecPersist).          *)
(***************************************************************************)
\* the destination cells that hold the record image, as they are on the media
DurImage == SubSeq(dur, 1, ImageCells(inp))

AllOld(cells) == \A i \in DOMAIN cells : cells[i] = OldCell

NewImage == [i \in 1..ImageCells(inp) |-> ConstructRecord(inp)[i].data]

CrashedInCall ==
  pc = "crashed" /\ crashPc \in {"construct", "copy", "drain", "flush", "return"}

\* no store to the destination has been issued yet at the crash
CrashedBeforeFirstStore ==
  /\ pc = "crashed"
  /\ \/ crashPc = "construct"
     \/ crashPc = "copy" /\ with_buffer(inp)

\* the drain (staging path) or the persist (direct path) had completed
CrashedAfterFlush == pc = "crashed" /\ crashPc \in {"return", "idle"}

\* C5 as stated: after a crash at any point of the call, on either path, the
\* durable bytes of the record are entirely the pre-write contents or
\* entirely the new image, never a mixture.
C5_CrashAtomic ==
  CrashedInCall => (AllOld(DurImage) \/ DurImage = NewImage)

\* C5 amended: a crash before the first store to addr leaves the pre-write
\* contents; a crash after the drain / persist leaves the complete new
\* image; only in between may old and new cells be mixed.
C5_CrashOldBeforeStoreNewAfterFlush ==
  /\ CrashedBeforeFirstStore => AllOld(dur)
  /\ CrashedAfterFlush => DurImage = NewImage

C5_Witness ==
  /\ CrashedBeforeFirstStore /\ crashPc = "copy"
  /\ AllOld(dur) /\ nPersists = 1

\* the record read back from the media
DurRecord ==
  LET n == ImageCells(inp)
  IN  [record_size |-> dur[1].f[1], timestamp |-> dur[1].f[2],
       type |-> dur[1].f[3],
       key |-> [size |-> dur[n - 1].f[1], data |-> dur[n - 1].f[2]],
       value |-> [size |-> dur[n].f[1], data |-> dur[n].f[2]],
       checksum |-> dur[2].f[1],
       prev |-> IF inp.kind = "DL" THEN dur[3].f[1] ELSE 0,
       next |-> IF inp.kind = "DL" THEN dur[3].f[2] ELSE 0]

DurRecordComplete ==
  /\ \A i \in 1..ImageCells(inp) : dur[i].tag \notin {"old", "stale", "torn"}
  /\ DurRecord.key = inp.key
  /\ DurRecord.value = inp.value
  /\ DurRecord.timestamp = inp.timestamp
  /\ DurRecord.type = inp.type
  /\ DurRecord.record_size = inp.record_size
  /\ DurRecord.prev = inp.prev
  /\ DurRecord.next = inp.next
  /\ DurRecord.checksum =
       Checksum(DurRecord.record_size, DurRecord.timestamp, DurRecord.type,
                DurRecord.key, DurRecord.value)

Returned == pc = "idle" /\ ret # 0

CrashedAfterReturn == pc = "crashed" /\ crashPc = "idle"

\* C6: once the call has returned, on both paths, the whole image is on the
\* media: a crash at any later time leaves at addr the record with the key,
\* value, timestamp, type (and prev/next) passed in and a matching checksum.
C6_DurableOnReturn ==
  (Returned \/ CrashedAfterReturn) => DurRecordComplete

C6_Witness ==
  CrashedAfterReturn /\ inp.kind = "DL" /\ ~with_buffer(inp) /\ DurRecordComplete

\* the destination after a whole persist through the staging buffer
ViaStagingBuffer(in) ==
  LET lay == DestLayout(in)
      old == [i \in 1..Len(lay) |-> OldCell]
      buf == [size |-> kDataBufferSize, segs |-> ConstructRecord(in)]
  IN  pmem_drain(old, pmem_memcpy(old, lay, buf, write_size(in)))

\* the destination after a whole persist constructed in place
DirectAtDestination(in) ==
  LET lay == DestLayout(in)
      old == [i \in 1..Len(lay) |-> OldCell]
  IN  pmem_persist(old, StoreSegs(old, lay, ConstructRecord(in)), lay,
                   write_size(in))

\* C7: the durable bytes a completed call leaves at the destination are
\* those the other path would have left for the same arguments.
C7_PathsEquivalent ==
  Returned =>
    dur = IF with_buffer(inp) THEN DirectAtDestination(inp)
          ELSE ViaStagingBuffer(inp)

C7_Witness ==
  /\ Returned /\ with_buffer(inp) /\ nPersists = 2
  /\ inp.record_size > write_size(inp)
  /\ dur = DirectAtDestination(inp)

(***************************************************************************)
(* Claims about the timestamp authority (checked under SpecTime).          *)
(***************************************************************************)
\* C8 as stated: every value get_timestamp() returns after a restart is
\* strictly greater than every timestamp issued before the restart.
C8_AboveAllIssuedBeforeRestart ==
  \A t \in Writers :
    (restarts > 0 /\ lastTs[t] # NoTs /\ issuedBefore # NoTs) =>
      lastTs[t] > issuedBefore

\* C8 amended: every value get_timestamp() returns after a restart is at
\* least the highest timestamp that was on the media at the restart (the
\* one recovery observes), and strictly greater once the cycle counter has
\* moved past the value read at startup.
C8_NotBelowRecoveredVersion ==
  \A t \in Writers :
    (restarts > 0 /\ lastTs[t] # NoTs) =>
      /\ lastTs[t] >= mediaBefore
      /\ lastTsc[t] > ts_on_startup_ => lastTs[t] > mediaBefore

C8_Witness ==
  \E t \in Writers :
    /\ restarts > 0 /\ mediaBefore > 0 /\ tsc < mediaBefore
    /\ lastTs[t] # NoTs /\ lastTsc[t] > ts_on_startup_
    /\ lastTs[t] > mediaBefore

\* C9 as stated: within one run, of two successive get_timestamp() calls of
\* one thread the later returns a strictly larger value.
C9_StrictlyIncreasingPerThread ==
  \A t \in Writers : prevTs[t] # NoTs => lastTs[t] > prevTs[t]

\* C9 amended: of two successive calls of one thread the later never
\* returns a smaller value, and returns a strictly larger one whenever the
\* cycle counter advanced between the two reads.
C9_NonDecreasingPerThread ==
  \A t \in Writers :
    prevTs[t] # NoTs =>
      /\ lastTs[t] >= prevTs[t]
      /\ lastTsc[t] > prevTsc[t] => lastTs[t] > prevTs[t]

C9_Witness ==
  \E t \in Writers :
    /\ prevTs[t] # NoTs /\ lastTsc[t] > prevTsc[t] /\ lastTs[t] > prevTs[t]
    /\ restarts > 0

(***************************************************************************)
(* Claims about the allocator (checked under SpecAlloc).                   *)
(***************************************************************************)
Disjoint(e1, e2) ==
  \/ e1.offset + e1.size <= e2.offset
  \/ e2.offset + e2.size <= e1.offset

\* C10: in every interleaving of the Allocate calls of distinct threads, any
\* two entries returned and not freed are disjoint byte ranges.
C10_LiveEntriesDisjoint ==
  \A e1 \in live : \A e2 \in live : e1 # e2 => Disjoint(e1, e2)

\* two threads hold entries, one of them from a second chunk taken after the
\* rest of its first chunk was abandoned
C10_Witness ==
  \E e1 \in live : \E e2 \in live :
    /\ e1.thread # e2.thread
    /\ Len(thread_cache_[e1.thread].allocated_chunks) = 2
    /\ e1.offset = thread_cache_[e1.thread].allocated_chunks[2]
    /\ Disjoint(e1, e2)

(***************************************************************************)
(* Claims about the recovery scan (checked under SpecRecover).             *)
(***************************************************************************)
\* the record an index entry refers to
EntryRecord(e) == RecordAt(media[e.shard], e.off)

\* the checksum-valid records on the media that carry the key k
ValidWithKey(k) ==
  {r \in MediaRecords :
     ValidateRecord(media[r[1]][r[2]]) /\ media[r[1]][r[2]].key = k}

AllDone == \A s \in Shards : scanPc[s] = "Done"

\* C11: a scanned record whose checksum does not match is never installed
\* in the index, and the cursor still advances by its declared size: the
\* cursor is always at a record boundary, the scan of a shard ends at the
\* end of the shard having validated every record, and every valid record,
\* also one behind a corrupt record, has been offered to the index.
C11_CorruptSkippedScanResumes ==
  /\ \A k \in KeyArgs :
       hash_table_[k] # NoEntry =>
         /\ ValidateRecord(EntryRecord(hash_table_[k]))
         /\ EntryRecord(hash_table_[k]).key = k
  /\ \A s \in Shards :
       /\ cursor[s] \in Boundaries(media[s]) \cup {ShardEnd(media[s])}
       /\ visited[s] \subseteq Boundaries(media[s])
       /\ scanPc[s] = "Done" =>
            /\ cursor[s] = ShardEnd(media[s])
            /\ visited[s] = Boundaries(media[s])
            /\ \A b \in Boundaries(media[s]) :
                 LET rec == RecordAt(media[s], b)
                 IN  ValidateRecord(rec) =>
                       hash_table_[rec.key].timestamp >= rec.timestamp

\* a shard whose first record is corrupt and whose second is valid: the
\* scan is done and the second record is the one installed for its key
C11_Witness ==
  \E s \in Shards :
    /\ scanPc[s] = "Done" /\ Len(media[s]) = 2
    /\ ~ValidateRecord(media[s][1]) /\ ValidateRecord(media[s][2])
    /\ hash_table_[media[s][2].key] =
         [timestamp |-> media[s][2].timestamp, shard |-> s,
          off |-> RecordOffset(media[s], 2)]

\* C12: over a recovery run the restore step installs each key-version at
\* most once and never a record that failed its checksum; when all shards
\* are done, the entry of a key is a valid record of that key with the
\* highest timestamp among them, whatever the order of the shards' steps.
C12_RestoreContract ==
  /\ \A kv \in KeyVersions : restoreCount[kv] <= 1
  /\ \A r \in restored : ValidateRecord(RecordAt(media[r[1]], r[2]))
  /\ AllDone =>
       \A k \in KeyArgs :
         IF ValidWithKey(k) = {}
         THEN hash_table_[k] = NoEntry
         ELSE /\ hash_table_[k] # NoEntry
              /\ EntryRecord(hash_table_[k]).timestamp = hash_table_[k].timestamp
              /\ \E r \in ValidWithKey(k) :
                   /\ r[1] = hash_table_[k].shard
                   /\ RecordOffset(media[r[1]], r[2]) = hash_table_[k].off
              /\ \A r \in ValidWithKey(k) :
                   hash_table_[k].timestamp >= media[r[1]][r[2]].timestamp

\* two shards hold valid records of one key; the one with the lower
\* timestamp was scanned second and lost
C12_Witness ==
  /\ AllDone
  /\ \E s1 \in Shards, s2 \in Shards :
       /\ s1 # s2 /\ Len(media[s1]) = 1 /\ Len(media[s2]) = 1
       /\ ValidateRecord(media[s1][1]) /\ ValidateRecord(media[s2][1])
       /\ media[s1][1].key = media[s2][1].key
       /\ media[s1][1].timestamp > media[s2][1].timestamp
       /\ restoreCount[<<media[s2][1].key, media[s2][1].timestamp>>] = 0
       /\ restoreCount[<<media[s1][1].key, media[s1][1].timestamp>>] = 1
       /\ hash_table_[media[s1][1].key].shard = s1

(***************************************************************************)
(* Claims about the size checks (checked under SpecSize).                  *)
(***************************************************************************)
\* a length above UINT16_MAX, above UINT32_MAX (the low limb is below 2^16)
LongerThanUint16(size) == size[1] >= 1
LongerThanUint32(size) == size[1] >= 65536

\* C13: a key or collection name longer than UINT16_MAX fails CheckKeySize,
\* a value longer than UINT32_MAX fails CheckValueSize, and
\* SearchOrInitSkiplist given an over-long name returns InvalidDataSize
\* without calling SearchOrInitPersistentList: no collection is created, no
\* space is allocated, no record is persisted.
C13_SizeLimitsBeforeSideEffects ==
  /\ sizeCall.op = "CheckKeyValueSize" =>
       /\ sizeCall.keyOk <=> ~LongerThanUint16(sizeCall.key.size)
       /\ sizeCall.valueOk <=> ~LongerThanUint32(sizeCall.value.size)
  /\ (sizeCall.op = "SearchOrInitSkiplist"
        /\ LongerThanUint16(sizeCall.key.size)) =>
       /\ sizeCall.status = "InvalidDataSize"
       /\ ~sizeCall.called
       /\ <<skiplists_, spaceEntries, headerRecords>> = sizeCall.pre
  /\ \A c \in skiplists_ : ~LongerThanUint16(c.size)

\* a name of UINT16_MAX + 1 bytes is refused with init set, after a name of
\* UINT16_MAX bytes was accepted and its collection created
C13_Witness ==
  /\ sizeCall.op = "SearchOrInitSkiplist"
  /\ sizeCall.key.size = <<1, 0>> /\ sizeCall.init
  /\ sizeCall.status = "InvalidDataSize" /\ ~sizeCall.called
  /\ \E c \in skiplists_ : c.size = <<0, 65535>>
  /\ spaceEntries = Cardinality(skiplists_)

(***************************************************************************)
(* Claims about the chained insertion (checked under SpecInsert).          *)
(***************************************************************************)
LinkedOnlyFromRight(mem, n) ==
  checkDLRecordLinkageRight(mem, n) /\ ~checkDLRecordLinkageLeft(mem, n)

\* C14: under the three-step insertion with a crash possible between any
\* two steps, the new record N is never linked only from the right, and the
\* linkage check run by the recovery never takes its abort branch.
C14_NeverRightOnlyNeverAbort ==
  /\ (ins # NoInsert /\ ins.step >= 1) => ~LinkedOnlyFromRight(dl, ins.n)
  /\ ~aborted

(***************************************************************************)
(* Further claims about the linkage check (checked under SpecLink).        *)
(***************************************************************************)
\* C15: whenever the check returns true for N, on return both
\* record(N.prev).next = N and record(N.next).prev = N hold, that is,
\* checkDLRecordLinkageLeft(N) and checkDLRecordLinkageRight(N) are true.
C15_TrueMeansFullyLinked ==
  (call.rec # 0 /\ call.ret = "true") =>
    /\ checkDLRecordLinkageLeft(dl, call.rec)
    /\ checkDLRecordLinkageRight(dl, call.rec)

\* C17: a call of the check stores at most one word, the prev word of
\* record(N.next); N's own prev and next, the next word of record(N.prev)
\* and the link words of every other record are as they were.
C17_RepairFrame ==
  call.rec # 0 =>
    LET n    == call.rec
        succ == call.pre[n].next
        pred == call.pre[n].prev
    IN  /\ Len(call.writes) <= 1
        /\ \A i \in 1..Len(call.writes) :
             call.writes[i][1] = succ /\ call.writes[i][2] = "prev"
        /\ dl[n] = call.pre[n]
        /\ dl[pred].next = call.pre[pred].next
        /\ dl[succ].next = call.pre[succ].next
        /\ \A o \in Offsets : o # succ => dl[o] = call.pre[o]

\* a call that stored, on a record whose neighbours are two other records
C17_Witness ==
  /\ call.rec # 0 /\ Len(call.writes) = 1 /\ call.ret = "true"
  /\ call.pre[call.rec].next # call.rec
  /\ call.pre[call.rec].prev # call.rec
  /\ call.pre[call.rec].prev # call.pre[call.rec].next

\* C19: for a fully linked record the check returns true and stores
\* nothing: every record is as it was.
C19_FullyLinkedNoWrite ==
  SawBoth =>
    /\ call.ret = "true"
    /\ ~aborted
    /\ call.writes = <<>>
    /\ dl = call.pre

C19_Witness ==
  /\ SawBoth /\ call.ret = "true" /\ dl = call.pre
  /\ call.pre[call.rec].next # call.rec
  /\ call.pre[call.rec].prev # call.pre[call.rec].next

(***************************************************************************)
(* Further claims about the persist protocol (checked under SpecPersist).  *)
(***************************************************************************)
\* header + key + value of the call, in bytes
ImageBytes ==
  (IF inp.kind = "String" THEN SizeofStringRecord ELSE SizeofDLRecord)
    + inp.key.size + inp.value.size

\* some byte of the new record has been stored to addr
DestinationTouched == \E i \in DOMAIN vis : vis[i] # OldCell

\* the full image of the call's record stands in the staging buffer
ImageInStagingBuffer == thread_data_buffer.segs = ConstructRecord(inp)

\* C16 as stated: on every path, also above the staging threshold, no byte
\* of the new record is stored to addr before the full image has been
\* constructed in memory other than addr.
C16_ImageBuiltBeforeDestinationStore ==
  (pc # "crashed" /\ DestinationTouched) => ImageInStagingBuffer

\* C16 amended: on the staging path no byte is stored to addr before the
\* full image stands in the staging buffer; on the direct path the image is
\* constructed at addr itself and the staging buffer never holds it.
C16_StagedBuiltFirstDirectBuiltInPlace ==
  (pc # "crashed" /\ DestinationTouched) =>
    IF ImageBytes <= 1024 * 1024
    THEN ImageInStagingBuffer
    ELSE /\ ~ImageInStagingBuffer
         /\ \A i \in 1..ImageCells(inp) : vis[i] = NewImage[i]

C16_Witness ==
  /\ pc = "drain" /\ inp.kind = "DL" /\ ImageBytes = 1024 * 1024
  /\ DestinationTouched /\ ImageInStagingBuffer

\* C18: the staging buffer is taken exactly when header + key + value is at
\* most 1 MiB; the thread's buffer is empty until its first such call and
\* 1 MiB long ever after; a call above 1 MiB neither reads nor resizes it.
C18_PathSelection ==
  (inp # NoInput /\ pc # "crashed") =>
    /\ data_cpy_target = "buffer" <=> ImageBytes <= 1024 * 1024
    /\ pc \in {"copy", "drain"} => ImageBytes <= 1024 * 1024
    /\ pc = "flush" => ImageBytes > 1024 * 1024
    /\ thread_data_buffer.size =
         IF minWriteSize <= 1024 * 1024 THEN 1024 * 1024 ELSE 0
    /\ ImageBytes > 1024 * 1024 => thread_data_buffer = bufferAtCall

\* a record of exactly 1 MiB went through the buffer after a larger one had
\* left the buffer empty
C18_Witness ==
  /\ Returned /\ nPersists = 2 /\ ImageBytes = 1024 * 1024
  /\ data_cpy_target = "buffer" /\ bufferAtCall = EmptyBuffer
  /\ thread_data_buffer.size = 1024 * 1024

\* C20: with record_size at least header + key + value, a call changes
\* destination bytes in [addr, addr + header + key + value) only: the
\* padding up to record_size and the next record are as they were; the
\* pointer returned is addr.
C20_StaysInsideReservedSpan ==
  inp # NoInput =>
    /\ \A i \in DOMAIN vis :
         (vis[i] # OldCell \/ dur[i] # OldCell) =>
           /\ i <= ImageCells(inp)
           /\ DestLayout(inp)[i].off + DestLayout(inp)[i].size <= ImageBytes
    /\ Returned => ret = inp.addr

C20_Witness ==
  /\ Returned /\ ret = inp.addr /\ ImageBytes > 1024 * 1024
  /\ inp.record_size > ImageBytes
  /\ dur[ImageCells(inp) + 1] = OldCell /\ dur[ImageCells(inp) + 2] = OldCell
  /\ DurImage = NewImage

====
